---- MODULE Spec2Model ----
(***************************************************************************)
(* Session & subscription manager of the market-data streaming client      *)
(* (src/app/page.tsx, component StockBrokerClient).                         *)
(*                                                                         *)
(* One step of the model is one turn of the browser's event loop: a        *)
(* command handler or a WebSocket/timer callback, followed by the React    *)
(* render it causes and the effects of that render (the three persistence  *)
(* effects of lines 129-142).                                              *)
(***************************************************************************)
EXTENDS Integers, Sequences, FiniteSets, TLC

\* ------------------------------------------------------------------ bounds
\* WebSocket instances that may be alive (not yet closed) at the same time.
MaxSockets == 2
\* Longest subscription list the model lets subscribe() build.
MaxSubs == 2
\* Comma-separated segments in one subscribe() input.
MaxSegments == 2

\* ------------------------------------------------------------ value spaces
Absent == "absent"        \* JavaScript undefined / a key that is not there
Null == "null"            \* JavaScript null

Tokens == {"NSECM:2885", "NSECM:1234"}
Kinds == {"ltpinfo", "marketPicture"}
SubscribedToken == [token : Tokens, type : Kinds]

DefaultCreds ==
    [gscid |-> "KS02", gcid |-> "218",
     sessionId |-> "dummy-session", deviceId |-> "dummy-device"]
OperatorCreds ==
    [gscid |-> "KS03", gcid |-> "219",
     sessionId |-> "session-2", deviceId |-> "device-2"]
CredSet == {DefaultCreds, OperatorCreds}

STORAGE_KEYS == {"subscriptions", "credentials", "wasLoggedIn"}

\* The canonical fields of interface MarketData, and the keys a raw frame may
\* carry (the canonical ones plus the two primary aliases).
CanonFields ==
    {"ltp", "change", "changePercent", "volume", "high", "low", "open", "close"}
RawKeys == CanonFields \cup {"symbol", "p_change", "tot_vol"}

Sockets == 1 .. MaxSockets
NoSocket == 0

VARIABLES
    mounted,              \* the mount effects (lines 98-142) have run
    wsStatus,             \* useState wsStatus
    isLoggedIn,           \* useState isLoggedIn
    subscribedTokens,     \* useState subscribedTokens
    marketData,           \* useState marketData: symbol -> record
    creds,                \* useState gscid, gcid, sessionId, deviceId
    wsRef,                \* wsRef.current: a socket, or NoSocket for null
    pendingSubscriptions, \* pendingSubscriptionsRef.current
    sockets,              \* every WebSocket created: state and closure
    timers,               \* sockets whose setTimeout(sendLogin, 500) is pending
    storage,              \* localStorage under STORAGE_KEYS
    last                  \* the step just taken: operation, frames sent, log

vars ==
    <<mounted, wsStatus, isLoggedIn, subscribedTokens, marketData, creds, wsRef,
      pendingSubscriptions, sockets, timers, storage, last>>

\* ------------------------------------------------------- inbound frames
FieldValues == {"101.5", "102.0"}
FieldKeys == RawKeys \ {"symbol"}

EmptyRaw == [k \in RawKeys |-> Absent]

\* A raw JSON object carrying the given symbol (or none) and the given fields.
RawObject(symbol, fields) ==
    [k \in RawKeys |->
        IF k = "symbol" THEN symbol
        ELSE IF k \in DOMAIN fields THEN fields[k] ELSE Absent]

\* JSON.parse(event.data) as the handler reads it: whether it parses, the
\* nested "response" object (svcName, streamingType, data) and the top-level
\* fields.
Frame(valid, hasResponse, svcName, streamingType, hasData, data, top) ==
    [valid |-> valid, hasResponse |-> hasResponse, svcName |-> svcName,
     streamingType |-> streamingType, hasData |-> hasData, data |-> data,
     top |-> top]

BadFrame == Frame(FALSE, FALSE, Absent, Absent, FALSE, EmptyRaw, EmptyRaw)
ResponseFrame(svcName, streamingType) ==
    Frame(TRUE, TRUE, svcName, streamingType, FALSE, EmptyRaw, EmptyRaw)
NestedFrame(svcName, streamingType, data, top) ==
    Frame(TRUE, TRUE, svcName, streamingType, TRUE, data, top)
FlatFrame(top) == Frame(TRUE, FALSE, Absent, Absent, FALSE, EmptyRaw, top)

\* a ?? b
Coalesce(a, b) == IF a \in {Absent, Null} THEN b ELSE a

\* Mutant of IsLoginConfirmation: the streamingType test is dropped.
IsLoginConfirmationAnyType(f) == f.hasResponse /\ f.svcName = "Broadcast"

\* parsed.response?.svcName === "Broadcast" && ...streamingType === "login"
IsLoginConfirmation(f) ==
    f.hasResponse /\ f.svcName = "Broadcast" /\ f.streamingType = "login"

\* marketInfo of lines 187-196: response.data when it is there, else the
\* top-level object when it carries a symbol, else nothing.
HasMarketInfo(f) == (f.hasResponse /\ f.hasData) \/ f.top["symbol"] # Absent
MarketInfo(f) == IF f.hasResponse /\ f.hasData THEN f.data ELSE f.top
FrameSymbol(f) == IF HasMarketInfo(f) THEN MarketInfo(f)["symbol"] ELSE Absent

\* The object literal of lines 199-210: the eight canonical fields with their
\* defaults, then ...marketInfo spread over them.
NormalizedDefaults(symbol, info) ==
    [k \in RawKeys |->
        CASE k = "symbol" -> symbol
          [] k = "changePercent" ->
                Coalesce(info["p_change"], Coalesce(info["changePercent"], Null))
          [] k = "volume" ->
                Coalesce(info["tot_vol"], Coalesce(info["volume"], Null))
          [] k \in {"p_change", "tot_vol"} -> Absent
          [] OTHER -> Coalesce(info[k], Null)]

Normalize(symbol, info) ==
    LET base == NormalizedDefaults(symbol, info)
    IN [k \in RawKeys |-> IF info[k] # Absent THEN info[k] ELSE base[k]]

\* setMarketData(prev => ({...prev, [symbol]: normalized}))
Ingest(store, symbol, info) ==
    [t \in DOMAIN store \cup {symbol} |->
        IF t = symbol THEN Normalize(symbol, info) ELSE store[t]]

\* const copy = {...prev}; delete copy[token]
RemoveRecord(store, token) == [t \in DOMAIN store \ {token} |-> store[t]]

EmptyStore == [t \in {} |-> EmptyRaw]

\* ------------------------------------------------------ outbound requests
\* The envelope of lines 256-263 / 273-280: login and logout carry the four
\* credential values.
AuthRequest(requestType, streamingType, c) ==
    [request_type |-> requestType, streamingType |-> streamingType,
     symbol |-> Absent, gscid |-> c.gscid, gcid |-> c.gcid,
     sessionId |-> c.sessionId, deviceId |-> c.deviceId]

\* The envelope of lines 171-179 / 301-308 / 329-336: one symbol, gscid, gcid.
SymbolRequest(requestType, streamingType, token, c) ==
    [request_type |-> requestType, streamingType |-> streamingType,
     symbol |-> token, gscid |-> c.gscid, gcid |-> c.gcid,
     sessionId |-> Absent, deviceId |-> Absent]

\* ---------------------------------------------------------- the transport
\* A WebSocket's life: "NONE" (not created, or closed and forgotten),
\* "CONNECTING", "OPEN", "CLOSING" (close() called), "FAILED" (the connection
\* failed: readyState CLOSED, error event delivered, close event to come),
\* "CLOSED" (close event delivered).
SocketStates == {"NONE", "CONNECTING", "OPEN", "CLOSING", "FAILED", "CLOSED"}

\* Mutant of RefOpen: the readyState test is dropped.
RefOpenAnyState == wsRef # NoSocket

\* wsRef.current && wsRef.current.readyState === WebSocket.OPEN
RefOpen == wsRef # NoSocket /\ sockets[wsRef].state = "OPEN"

\* WebSocket.send: throws InvalidStateError while CONNECTING, transmits while
\* OPEN, and discards the data once CLOSING or CLOSED. wsRef.current?.send
\* does nothing when the reference is null.
SendThrows == wsRef # NoSocket /\ sockets[wsRef].state = "CONNECTING"
Transmitted(requests) ==
    IF RefOpen THEN [i \in DOMAIN requests |-> [sock |-> wsRef, request |-> requests[i]]]
    ELSE <<>>

\* A socket slot connectWebSocket may use for new WebSocket(...): one never
\* used, or one whose socket is closed with no timer of its own left.
FreeSlot(s) == sockets[s].state \in {"NONE", "CLOSED"} /\ s \notin timers

\* ------------------------------------------------------------ persistence
NoItem == [present |-> FALSE, value |-> <<>>]
Item(v) == [present |-> TRUE, value |-> v]

\* saveSubscriptions(tokens), run by the effect on [subscribedTokens]
SaveSubscriptions(st, tokens) == [st EXCEPT !.subscriptions = Item(tokens)]
\* saveCredentials(), run by the effect on [gscid, gcid, sessionId, deviceId]
SaveCredentials(st, c) == [st EXCEPT !.credentials = Item(c)]
\* the effect on [isLoggedIn]: runs when the value changed
SaveWasLoggedIn(st, before, after) ==
    IF before # after
    THEN [st EXCEPT !.wasLoggedIn = IF after THEN "true" ELSE "false"]
    ELSE st
\* localStorage.removeItem of both keys (lines 246-247, 288-289)
RemoveSession(st) ==
    [st EXCEPT !.subscriptions = NoItem, !.wasLoggedIn = Absent]

\* -------------------------------------------------------- the step record
Step(op, sock, arg, sent, notes) ==
    [op |-> op, sock |-> sock, arg |-> arg, sent |-> sent, notes |-> notes]

\* ------------------------------------------------------------------- Init
\* What an earlier run of the page can have left in localStorage: nothing, or
\* a duplicate-free subscription list, credentials and a login flag.
StoredLists ==
    {l \in UNION {[1 .. n -> SubscribedToken] : n \in 0 .. MaxSubs} :
        \A i, j \in DOMAIN l : l[i] = l[j] => i = j}

InitialStorage(credSet) ==
    [subscriptions : {NoItem} \cup {Item(l) : l \in StoredLists},
     credentials : {NoItem} \cup {Item(c) : c \in credSet},
     wasLoggedIn : {Absent, "true", "false"}]

NewSocket(c) == [state |-> "CONNECTING", creds |-> c]
NoSocketYet == [state |-> "NONE", creds |-> DefaultCreds]

InitWith(storages) ==
    /\ mounted = FALSE
    /\ wsStatus = "disconnected"
    /\ isLoggedIn = FALSE
    /\ subscribedTokens = <<>>
    /\ marketData = EmptyStore
    /\ creds = DefaultCreds
    /\ wsRef = NoSocket
    /\ pendingSubscriptions = <<>>
    /\ sockets = [s \in Sockets |-> NoSocketYet]
    /\ timers = {}
    /\ storage \in storages
    /\ last = Step("init", NoSocket, <<>>, <<>>, {})

\* The session specification starts from the credentials of lines 59-62.
Init == InitWith(InitialStorage({DefaultCreds}))

\* ----------------------------------------------------------------- mount
\* The mount effects, lines 98-142, and the render that follows them.  The
\* auto-connect runs connectWebSocket of the first render, whose closures
\* hold the default credentials of lines 59-62.
AutoConnect(st) ==
    st.wasLoggedIn = "true" /\ st.credentials.present /\ st.subscriptions.present

Mount ==
    /\ ~mounted
    /\ mounted' = TRUE
    /\ creds' = IF storage.credentials.present
                THEN storage.credentials.value ELSE creds
    /\ subscribedTokens' = IF storage.subscriptions.present
                           THEN storage.subscriptions.value ELSE subscribedTokens
    /\ pendingSubscriptions' = IF storage.subscriptions.present
                               THEN storage.subscriptions.value
                               ELSE pendingSubscriptions
    /\ IF AutoConnect(storage)
       THEN /\ sockets' = [sockets EXCEPT ![1] = NewSocket(DefaultCreds)]
            /\ wsRef' = 1
       ELSE UNCHANGED <<sockets, wsRef>>
    /\ storage' = [subscriptions |-> Item(subscribedTokens'),
                   credentials |-> Item(creds'),
                   wasLoggedIn |-> "false"]
    /\ last' = Step("mount", wsRef', <<>>, <<>>, {})
    /\ UNCHANGED <<wsStatus, isLoggedIn, marketData, timers>>

\* --------------------------------------------------------------- commands
\* connectWebSocket, lines 144-147: always a new WebSocket, stored in wsRef;
\* the socket replaced is neither closed nor detached from its handlers.
ConnectWebSocket(s) ==
    /\ mounted
    /\ FreeSlot(s)
    /\ \A t \in Sockets : t < s => ~FreeSlot(t)
    /\ sockets' = [sockets EXCEPT ![s] = NewSocket(creds)]
    /\ wsRef' = s
    /\ last' = Step("connect", s, <<>>, <<>>, {})
    /\ UNCHANGED <<mounted, wsStatus, isLoggedIn, subscribedTokens, marketData,
                   creds, pendingSubscriptions, timers, storage>>

\* wsRef.current?.close(): CONNECTING or OPEN becomes CLOSING
CloseCalled(socks) ==
    IF wsRef # NoSocket /\ socks[wsRef].state \in {"CONNECTING", "OPEN"}
    THEN [socks EXCEPT ![wsRef].state = "CLOSING"]
    ELSE socks

\* disconnectWebSocket, lines 237-248, then the effects on [subscribedTokens]
\* and [isLoggedIn]
DisconnectWebSocket ==
    /\ mounted
    /\ sockets' = CloseCalled(sockets)
    /\ wsRef' = NoSocket
    /\ isLoggedIn' = FALSE
    /\ subscribedTokens' = <<>>
    /\ marketData' = EmptyStore
    /\ pendingSubscriptions' = <<>>
    /\ storage' = SaveWasLoggedIn(
                      SaveSubscriptions(RemoveSession(storage), subscribedTokens'),
                      isLoggedIn, isLoggedIn')
    /\ last' = Step("disconnect", wsRef, <<>>, <<>>, {})
    /\ UNCHANGED <<mounted, wsStatus, creds, timers>>

\* sendLogin, lines 250-268, run with the credentials c of its closure
LoginRequest(c) == AuthRequest("subscribe", "login", c)

SendLogin(op, sock, c) ==
    /\ IF RefOpen
       THEN last' = Step(op, sock, <<>>, Transmitted(<<LoginRequest(c)>>), {})
       ELSE last' = Step(op, sock, <<>>, <<>>, {"Not connected"})
    /\ UNCHANGED <<mounted, wsStatus, isLoggedIn, subscribedTokens, marketData,
                   creds, wsRef, pendingSubscriptions, sockets, storage>>

Login ==
    /\ mounted
    /\ SendLogin("login", wsRef, creds)
    /\ UNCHANGED timers

\* Mutant of LogoutRequest: the request type of the login request is kept.
LogoutRequestAsSubscribe(c) == AuthRequest("subscribe", "logout", c)

\* sendLogout, lines 270-290, then the effects
LogoutRequest(c) == AuthRequest("unsubscribe", "logout", c)

SendLogout ==
    /\ mounted
    /\ IF RefOpen
       THEN /\ isLoggedIn' = FALSE
            /\ subscribedTokens' = <<>>
            /\ marketData' = EmptyStore
            /\ pendingSubscriptions' = <<>>
            /\ storage' = SaveWasLoggedIn(
                              SaveSubscriptions(RemoveSession(storage),
                                                subscribedTokens'),
                              isLoggedIn, isLoggedIn')
            /\ last' = Step("logout", wsRef, <<>>,
                            Transmitted(<<LogoutRequest(creds)>>), {})
       ELSE /\ last' = Step("logout", wsRef, <<>>, <<>>, {})
            /\ UNCHANGED <<isLoggedIn, subscribedTokens, marketData,
                           pendingSubscriptions, storage>>
    /\ UNCHANGED <<mounted, wsStatus, creds, wsRef, sockets, timers>>

\* newToken.split(',').map(t => t.trim()).filter(Boolean), line 298.  The
\* input is its comma-separated segments; a segment is a token or nothing,
\* with or without blanks around it.
Segments ==
    {[text |-> "NSECM:2885", padded |-> FALSE],
     [text |-> "NSECM:1234", padded |-> TRUE],
     [text |-> "", padded |-> TRUE]}
Inputs == UNION {[1 .. n -> Segments] : n \in 1 .. MaxSegments}

Trim(segment) == segment.text

RECURSIVE ParseTokens(_)
ParseTokens(input) ==
    IF input = <<>> THEN <<>>
    ELSE LET t == Trim(Head(input))
         IN (IF t # "" THEN <<t>> ELSE <<>>) \o ParseTokens(Tail(input))

\* lines 314-318: the new pairs that are not among the previous entries,
\* appended to the previous entries
RECURSIVE FilterNew(_, _)
FilterNew(newSubs, existing) ==
    IF newSubs = <<>> THEN <<>>
    ELSE (IF Head(newSubs) \in existing THEN <<>> ELSE <<Head(newSubs)>>)
         \o FilterNew(Tail(newSubs), existing)

MergeSubscriptions(prev, newSubs) ==
    prev \o FilterNew(newSubs, {prev[i] : i \in DOMAIN prev})

\* Mutant of SubscribeAllowed: the isLoggedIn test is dropped.
SubscribeAllowedLoggedOut == RefOpen

\* the guard of line 293
SubscribeAllowed == RefOpen /\ isLoggedIn

\* subscribeToken, lines 292-324, then the effect on [subscribedTokens]
SubscribeToken(input, streamingType) ==
    /\ mounted
    /\ IF SubscribeAllowed
       THEN LET tokens == ParseTokens(input)
                requests == [i \in DOMAIN tokens |->
                                SymbolRequest("subscribe", streamingType,
                                              tokens[i], creds)]
                newSubs == [i \in DOMAIN tokens |->
                                [token |-> tokens[i], type |-> streamingType]]
                updated == MergeSubscriptions(subscribedTokens, newSubs)
            IN /\ Len(updated) <= MaxSubs
               /\ subscribedTokens' = updated
               /\ pendingSubscriptions' = updated
               /\ storage' = SaveSubscriptions(storage, updated)
               /\ last' = Step("subscribe", wsRef,
                               [tokens |-> tokens, type |-> streamingType],
                               Transmitted(requests), {})
       ELSE /\ last' = Step("subscribe", wsRef, <<>>, <<>>,
                            {IF ~isLoggedIn THEN "Please login first"
                                            ELSE "Not connected"})
            /\ UNCHANGED <<subscribedTokens, pendingSubscriptions, storage>>
    /\ UNCHANGED <<mounted, wsStatus, isLoggedIn, marketData, creds, wsRef,
                   sockets, timers>>

\* Mutant of RemoveSubscription: entries are matched by token alone.
RemoveSubscriptionByToken(list, token, type) ==
    SelectSeq(list, LAMBDA i : ~(i.token = token))

\* line 341
RemoveSubscription(list, token, type) ==
    SelectSeq(list, LAMBDA i : ~(i.token = token /\ i.type = type))

\* unsubscribeToken, lines 326-350, then the effect on [subscribedTokens]
UnsubscribeToken(token, type) ==
    /\ mounted
    /\ IF RefOpen
       THEN LET updated == RemoveSubscription(subscribedTokens, token, type)
            IN /\ subscribedTokens' = updated
               /\ pendingSubscriptions' = updated
               /\ marketData' = RemoveRecord(marketData, token)
               /\ storage' = SaveSubscriptions(storage, updated)
               /\ last' = Step("unsubscribe", wsRef,
                               [token |-> token, type |-> type],
                               Transmitted(<<SymbolRequest("unsubscribe", type,
                                                            token, creds)>>), {})
       ELSE /\ last' = Step("unsubscribe", wsRef, <<>>, <<>>, {})
            /\ UNCHANGED <<subscribedTokens, pendingSubscriptions, marketData,
                           storage>>
    /\ UNCHANGED <<mounted, wsStatus, isLoggedIn, creds, wsRef, sockets, timers>>

\* the credential inputs, line 430, then the effect on the four values
SetCredentials(c) ==
    /\ mounted
    /\ c # creds
    /\ creds' = c
    /\ storage' = SaveCredentials(storage, c)
    /\ last' = Step("setCredentials", wsRef, <<>>, <<>>, {})
    /\ UNCHANGED <<mounted, wsStatus, isLoggedIn, subscribedTokens, marketData,
                   wsRef, pendingSubscriptions, sockets, timers>>

\* ------------------------------------------------------- transport events
\* Mutant of AutoLoginWanted: only the persisted login flag is consulted.
AutoLoginWantedByFlagOnly == storage.wasLoggedIn = "true"

\* onopen, lines 148-156
AutoLoginWanted ==
    Len(pendingSubscriptions) > 0 \/ storage.wasLoggedIn = "true"

OnOpen(s) ==
    /\ sockets[s].state = "CONNECTING"
    /\ sockets' = [sockets EXCEPT ![s].state = "OPEN"]
    /\ wsStatus' = "connected"
    /\ timers' = IF AutoLoginWanted THEN timers \cup {s} ELSE timers
    /\ last' = Step("open", s, <<>>, <<>>, {"WebSocket connected"})
    /\ UNCHANGED <<mounted, isLoggedIn, subscribedTokens, marketData, creds,
                   wsRef, pendingSubscriptions, storage>>

\* setTimeout(sendLogin, 500) of socket s fires: sendLogin of the render
\* that created s
TimerFires(s) ==
    /\ s \in timers
    /\ timers' = timers \ {s}
    /\ SendLogin("timer", s, sockets[s].creds)

\* lines 168-183: one subscribe request per pending entry, with the gscid and
\* gcid of the render that created the socket
ReplayRequests(list, c) ==
    [i \in DOMAIN list |->
        SymbolRequest("subscribe", list[i].type, list[i].token, c)]

\* onmessage, lines 158-220, then the effect on [isLoggedIn].  A send that
\* throws leaves the try block: the state updates already queued stand, the
\* market data part is skipped.
OnMessage(s, f) ==
    /\ sockets[s].state = "OPEN"
    /\ IF ~f.valid
       THEN /\ last' = Step("message", s, f, <<>>, {"received raw"})
            /\ UNCHANGED <<isLoggedIn, marketData, storage>>
       ELSE LET login == IsLoginConfirmation(f)
                replay == IF login
                          THEN ReplayRequests(pendingSubscriptions, sockets[s].creds)
                          ELSE <<>>
                thrown == Len(replay) > 0 /\ SendThrows
                symbol == FrameSymbol(f)
            IN /\ isLoggedIn' = (login \/ isLoggedIn)
               /\ marketData' = IF ~thrown /\ symbol # Absent
                                THEN Ingest(marketData, symbol, MarketInfo(f))
                                ELSE marketData
               /\ storage' = SaveWasLoggedIn(storage, isLoggedIn, isLoggedIn')
               /\ last' = Step("message", s, f,
                               IF thrown THEN <<>> ELSE Transmitted(replay),
                               IF thrown THEN {"received raw"} ELSE {})
    /\ UNCHANGED <<mounted, wsStatus, subscribedTokens, creds, wsRef,
                   pendingSubscriptions, sockets, timers>>

\* onerror, lines 222-225.  The browser fires error when the connection has
\* failed; the close event follows.
OnError(s) ==
    /\ sockets[s].state \in {"CONNECTING", "OPEN", "CLOSING"}
    /\ sockets' = [sockets EXCEPT ![s].state = "FAILED"]
    /\ wsStatus' = "error"
    /\ last' = Step("error", s, <<>>, <<>>, {"WebSocket error occurred"})
    /\ UNCHANGED <<mounted, isLoggedIn, subscribedTokens, marketData, creds,
                   wsRef, pendingSubscriptions, timers, storage>>

\* Mutant of OnClose: the close event leaves wsStatus as it is.
OnCloseKeepsStatus(s) ==
    /\ sockets[s].state \in {"OPEN", "CLOSING", "FAILED"}
    /\ sockets' = [sockets EXCEPT ![s].state = "CLOSED"]
    /\ isLoggedIn' = FALSE
    /\ storage' = SaveWasLoggedIn(storage, isLoggedIn, isLoggedIn')
    /\ last' = Step("close", s, <<>>, <<>>, {"WebSocket disconnected"})
    /\ UNCHANGED <<mounted, wsStatus, subscribedTokens, marketData, creds,
                   wsRef, pendingSubscriptions, timers>>

\* Mutant of OnClose: the close event resets the session as disconnect does.
OnCloseResetsSession(s) ==
    /\ sockets[s].state \in {"OPEN", "CLOSING", "FAILED"}
    /\ sockets' = [sockets EXCEPT ![s].state = "CLOSED"]
    /\ wsStatus' = "disconnected"
    /\ isLoggedIn' = FALSE
    /\ subscribedTokens' = <<>>
    /\ pendingSubscriptions' = <<>>
    /\ marketData' = EmptyStore
    /\ storage' = SaveWasLoggedIn(SaveSubscriptions(storage, <<>>),
                                  isLoggedIn, isLoggedIn')
    /\ last' = Step("close", s, <<>>, <<>>, {"WebSocket disconnected"})
    /\ UNCHANGED <<mounted, creds, wsRef, timers>>

\* onclose, lines 227-231, then the effect on [isLoggedIn]
OnClose(s) ==
    /\ sockets[s].state \in {"OPEN", "CLOSING", "FAILED"}
    /\ sockets' = [sockets EXCEPT ![s].state = "CLOSED"]
    /\ wsStatus' = "disconnected"
    /\ isLoggedIn' = FALSE
    /\ storage' = SaveWasLoggedIn(storage, isLoggedIn, isLoggedIn')
    /\ last' = Step("close", s, <<>>, <<>>, {"WebSocket disconnected"})
    /\ UNCHANGED <<mounted, subscribedTokens, marketData, creds, wsRef,
                   pendingSubscriptions, timers>>

\* ------------------------------------------------------- specifications
\* The frames the venue sends in the session specification.
Quote(symbol) == RawObject(symbol, [k \in {"ltp", "p_change"} |-> "101.5"])
Tick(symbol) == RawObject(symbol, [k \in {"ltp"} |-> "102.0"])

SessionFrames ==
    {BadFrame,
     ResponseFrame("Broadcast", "login"),
     ResponseFrame("Broadcast", "ltpinfo"),
     ResponseFrame("Other", "login"),
     NestedFrame("Broadcast", "login", Quote("NSECM:2885"), EmptyRaw),
     NestedFrame(Absent, Absent, Tick("NSECM:2885"), EmptyRaw)}

Next ==
    \/ Mount
    \/ \E s \in Sockets : ConnectWebSocket(s)
    \/ DisconnectWebSocket
    \/ Login
    \/ SendLogout
    \/ \E input \in Inputs, k \in Kinds : SubscribeToken(input, k)
    \/ \E t \in Tokens, k \in Kinds : UnsubscribeToken(t, k)
    \/ \E s \in Sockets : OnOpen(s)
    \/ \E s \in Sockets : TimerFires(s)
    \/ \E s \in Sockets, f \in SessionFrames : OnMessage(s, f)
    \/ \E s \in Sockets : OnError(s)
    \/ \E s \in Sockets : OnClose(s)

Spec == Init /\ [][Next]_vars

\* The market data specification: the operator only connects, and the venue
\* sends quotes in both shapes of lines 190-196, with and without a symbol,
\* carrying the primary alias, the secondary alias, both or neither.
AliasFields ==
    {[k \in keys |-> IF k \in {"p_change", "tot_vol"} THEN "101.5" ELSE "102.0"] :
        keys \in {{}, {"p_change"}, {"changePercent"},
                  {"p_change", "changePercent"},
                  {"tot_vol"}, {"volume"}, {"tot_vol", "volume"}}}

DataObjects ==
    {RawObject("NSECM:2885", fields) : fields \in AliasFields}
    \cup {RawObject("NSECM:1234", [k \in {"ltp"} |-> "101.5"]),
          RawObject(Absent, [k \in {"ltp"} |-> "102.0"])}

DataFrames ==
    {NestedFrame(Absent, Absent, data, EmptyRaw) : data \in DataObjects}
    \cup {FlatFrame(top) : top \in DataObjects}
    \cup {NestedFrame(svcName, "login", Tick(Absent), Tick(symbol)) :
             svcName \in {Absent, "Broadcast"}, symbol \in Tokens}
    \cup {NestedFrame("Broadcast", "login", Quote("NSECM:1234"), EmptyRaw),
          ResponseFrame("Broadcast", "ltpinfo"),
          BadFrame}

NextData ==
    \/ Mount
    \/ \E s \in Sockets : ConnectWebSocket(s)
    \/ \E s \in Sockets : OnOpen(s)
    \/ \E s \in Sockets : TimerFires(s)
    \/ \E s \in Sockets, f \in DataFrames : OnMessage(s, f)
    \/ \E s \in Sockets : OnClose(s)

\* What the browser holds when the page loads in the market data
\* specification: at most one saved subscription.
DataStorage ==
    {st \in InitialStorage({DefaultCreds}) :
        st.subscriptions.present => Len(st.subscriptions.value) = 1}

InitData == InitWith(DataStorage)

SpecData == InitData /\ [][NextData]_vars

\* The credentials specification: the browser may hold saved credentials
\* other than the defaults, and the operator edits the credential inputs
\* between commands.
CredsStorage ==
    [subscriptions : {NoItem, Item(<<[token |-> "NSECM:2885", type |-> "ltpinfo"]>>)},
     credentials : {NoItem} \cup {Item(c) : c \in CredSet},
     wasLoggedIn : {Absent, "true", "false"}]

InitCreds == InitWith(CredsStorage)

CredsInputs == {<<[text |-> "NSECM:2885", padded |-> FALSE]>>}

NextCreds ==
    \/ Mount
    \/ \E c \in CredSet : SetCredentials(c)
    \/ \E s \in Sockets : ConnectWebSocket(s)
    \/ DisconnectWebSocket
    \/ Login
    \/ SendLogout
    \/ \E input \in CredsInputs : SubscribeToken(input, "ltpinfo")
    \/ UnsubscribeToken("NSECM:2885", "ltpinfo")
    \/ \E s \in Sockets : OnOpen(s)
    \/ \E s \in Sockets : TimerFires(s)
    \/ \E s \in Sockets : OnMessage(s, ResponseFrame("Broadcast", "login"))
    \/ \E s \in Sockets : OnClose(s)

SpecCreds == InitCreds /\ [][NextCreds]_vars

\* The reconnect specification: the operator issues no command but connect,
\* pressed when the page shows "disconnected" and no transport is alive; the
\* venue answers each login request with a confirmation, and a transport
\* drops only outside the login handshake.  Timers fire, transports open and
\* the venue answers, which is the fairness assumed.
Reconnect(s) ==
    /\ wsStatus = "disconnected"
    /\ \A t \in Sockets : sockets[t].state \in {"NONE", "CLOSED"}
    /\ ConnectWebSocket(s)

ConfirmLogin(s) ==
    /\ last.op = "timer"
    /\ last.sent # <<>>
    /\ last.sent[1].sock = s
    /\ OnMessage(s, ResponseFrame("Broadcast", "login"))

Drop(s) ==
    /\ s \notin timers
    /\ last.op # "timer"
    /\ OnClose(s)

NextReconnect ==
    \/ Mount
    \/ \E s \in Sockets : Reconnect(s)
    \/ \E s \in Sockets : OnOpen(s)
    \/ \E s \in Sockets : TimerFires(s)
    \/ \E s \in Sockets : ConfirmLogin(s)
    \/ \E s \in Sockets : Drop(s)

\* The error specification: transports fail at any time, and the browser
\* delivers the close event of a failed transport (fair delivery).
CloseAfterError(s) ==
    /\ sockets[s].state = "FAILED"
    /\ OnClose(s)

NextError ==
    \/ Mount
    \/ \E s \in Sockets : ConnectWebSocket(s)
    \/ DisconnectWebSocket
    \/ \E s \in Sockets : OnOpen(s)
    \/ \E s \in Sockets : TimerFires(s)
    \/ \E s \in Sockets : OnMessage(s, ResponseFrame("Broadcast", "login"))
    \/ \E s \in Sockets : OnError(s)
    \/ \E s \in Sockets : OnClose(s)

SpecError ==
    /\ Init
    /\ [][NextError]_vars
    /\ \A s \in Sockets : WF_vars(CloseAfterError(s))

SpecReconnect ==
    /\ Init
    /\ [][NextReconnect]_vars
    /\ WF_vars(\E s \in Sockets : Reconnect(s))
    /\ WF_vars(\E s \in Sockets : OnOpen(s))
    /\ WF_vars(\E s \in Sockets : TimerFires(s))
    /\ WF_vars(\E s \in Sockets : ConfirmLogin(s))

\* ------------------------------------------------------------------ claims
\* C1: the registry never holds two entries with the same (token, kind),
\* whatever was restored at startup and whatever subscribe() was given.
C1_RegistryHasNoDuplicates ==
    \A i, j \in DOMAIN subscribedTokens :
        subscribedTokens[i] = subscribedTokens[j] => i = j

\* C2: when two consecutive inbound frames are ingested under the same
\* symbol, every canonical field of the stored record has the second frame's
\* value if the second frame carries the field, and keeps the value stored
\* after the first frame otherwise.
Ingested(step) ==
    /\ step.op = "message"
    /\ step.arg.valid
    /\ FrameSymbol(step.arg) # Absent
    /\ "received raw" \notin step.notes

FrameField(f, field) ==
    CASE field = "changePercent" ->
            Coalesce(MarketInfo(f)["p_change"],
                     Coalesce(MarketInfo(f)["changePercent"], Absent))
      [] field = "volume" ->
            Coalesce(MarketInfo(f)["tot_vol"],
                     Coalesce(MarketInfo(f)["volume"], Absent))
      [] OTHER -> Coalesce(MarketInfo(f)[field], Absent)

C2_RecordIsMerged ==
    [][(/\ Ingested(last)
        /\ Ingested(last')
        /\ FrameSymbol(last.arg) = FrameSymbol(last'.arg))
       => \A field \in CanonFields :
            marketData'[FrameSymbol(last'.arg)][field] =
                IF FrameField(last'.arg, field) # Absent
                THEN FrameField(last'.arg, field)
                ELSE marketData[FrameSymbol(last'.arg)][field]]_vars

\* C3: a step that processes a login confirmation sends exactly one subscribe
\* request per registry entry, in order, each with the entry's token and kind.
C3_ReplayIsExactlyTheRegistry ==
    (last.op = "message" /\ last.arg.valid /\ IsLoginConfirmation(last.arg))
    => /\ Len(last.sent) = Len(subscribedTokens)
       /\ \A i \in DOMAIN last.sent :
            /\ last.sent[i].request.request_type = "subscribe"
            /\ last.sent[i].request.streamingType = subscribedTokens[i].type
            /\ last.sent[i].request.symbol = subscribedTokens[i].token

\* C4: after disconnect() and the effects it triggers, the session is logged
\* out, the registry and the market data store are empty, and the persisted
\* subscription set and login flag are absent from the store.
C4_DisconnectRemovesPersistedKeys ==
    last.op = "disconnect"
    => /\ ~isLoggedIn
       /\ subscribedTokens = <<>>
       /\ DOMAIN marketData = {}
       /\ ~storage.subscriptions.present
       /\ storage.wasLoggedIn = Absent

\* C5: subscribe() invoked while logged out sends no frame and leaves the
\* registry, the replay list and the market data store as they were.
C5_SubscribeWhileLoggedOutIsRejected ==
    [][(last'.op = "subscribe" /\ ~isLoggedIn)
       => /\ last'.sent = <<>>
          /\ UNCHANGED <<subscribedTokens, pendingSubscriptions, marketData>>]_vars

\* C5 witness: a subscribe() was rejected for want of a login on an open
\* transport, with a registry restored at startup in place.
C5_Witness ==
    /\ last.op = "subscribe"
    /\ "Please login first" \in last.notes
    /\ RefOpen
    /\ subscribedTokens # <<>>

\* C6: isLoggedIn goes from false to true only in a step that processes an
\* inbound frame whose response.svcName is "Broadcast" and whose
\* response.streamingType is "login".
C6_LoggedInOnlyOnConfirmation ==
    [][(~isLoggedIn /\ isLoggedIn')
       => /\ last'.op = "message"
          /\ last'.arg.valid
          /\ last'.arg.hasResponse
          /\ last'.arg.svcName = "Broadcast"
          /\ last'.arg.streamingType = "login"]_vars

\* C6 witness: a confirmation frame has just logged the session in, after a
\* login request went out.
C6_Witness ==
    /\ last.op = "message"
    /\ isLoggedIn
    /\ storage.wasLoggedIn = "true"
    /\ last.arg.streamingType = "login"

\* C7: after a transport error event the session is logged out, and no state
\* has wsStatus = error together with isLoggedIn.
C7_ErrorLogsOut ==
    /\ last.op = "error" => ~isLoggedIn
    /\ ~(wsStatus = "error" /\ isLoggedIn)

\* C8: at most one transport is connecting or open at any time: connect()
\* opens none while one is.
LiveSockets == {s \in Sockets : sockets[s].state \in {"CONNECTING", "OPEN"}}

C8_AtMostOneLiveTransport == Cardinality(LiveSockets) <= 1

\* C9: a login request goes out only when the transport is open and the
\* session is logged out; login() by command or by the timer sends nothing
\* when already logged in, and sends nothing and reports "Not connected"
\* when the transport is not open.
C9_LoginOnlyWhenOpenAndLoggedOut ==
    [][(last'.op \in {"login", "timer"})
       => /\ (isLoggedIn \/ ~RefOpen) => last'.sent = <<>>
          /\ ~RefOpen => "Not connected" \in last'.notes]_vars

\* C10: logout() on an open transport sends exactly one unsubscribe-type
\* request with streamingType logout; the same step logs the session out,
\* empties the registry, the replay list and the market data store and leaves
\* no subscription and no true login flag persisted; the transport and
\* wsStatus stay as they were.
C10_LogoutResetsLocally ==
    [][(last'.op = "logout" /\ RefOpen)
       => /\ Len(last'.sent) = 1
          /\ last'.sent[1].sock = wsRef
          /\ last'.sent[1].request.request_type = "unsubscribe"
          /\ last'.sent[1].request.streamingType = "logout"
          /\ ~isLoggedIn'
          /\ subscribedTokens' = <<>>
          /\ pendingSubscriptions' = <<>>
          /\ DOMAIN marketData' = {}
          /\ storage'.wasLoggedIn # "true"
          /\ storage'.subscriptions.value = <<>>
          /\ UNCHANGED <<sockets, wsRef, wsStatus>>]_vars

\* C10 witness: a logout request has just gone out from a session that was
\* logged in (the effect on isLoggedIn rewrote the flag).
C10_Witness ==
    /\ last.op = "logout"
    /\ Len(last.sent) = 1
    /\ storage.wasLoggedIn = "false"
    /\ RefOpen

\* C11: a transport close event sets wsStatus = disconnected and logs the
\* session out, and leaves the registry, the replay list and the market data
\* store exactly as they were.
C11_CloseKeepsSubscriptions ==
    [][(last'.op = "close")
       => /\ wsStatus' = "disconnected"
          /\ ~isLoggedIn'
          /\ UNCHANGED <<subscribedTokens, pendingSubscriptions, marketData>>]_vars

\* C11 witness: the transport of a logged-in session with subscriptions and
\* market records has just closed, and they are still there.
C11_Witness ==
    /\ last.op = "close"
    /\ storage.wasLoggedIn = "false"
    /\ subscribedTokens # <<>>
    /\ pendingSubscriptions # <<>>
    /\ DOMAIN marketData # {}

\* C12: unsubscribe(token, kind) on an open transport, logged in or not, sends
\* exactly one unsubscribe request for that token and kind, removes the
\* registry entries equal to (token, kind) and no other, deletes the market
\* record keyed by token and no other, and leaves the persisted subscription
\* set equal to the updated registry.
C12_UnsubscribeRemovesOneKey ==
    [][(last'.op = "unsubscribe" /\ RefOpen)
       => LET key == last'.arg
          IN /\ Len(last'.sent) = 1
             /\ last'.sent[1].sock = wsRef
             /\ last'.sent[1].request.request_type = "unsubscribe"
             /\ last'.sent[1].request.symbol = key.token
             /\ last'.sent[1].request.streamingType = key.type
             /\ subscribedTokens' =
                    SelectSeq(subscribedTokens, LAMBDA e : e # key)
             /\ key.token \notin DOMAIN marketData'
             /\ \A t \in DOMAIN marketData \ {key.token} :
                    t \in DOMAIN marketData' /\ marketData'[t] = marketData[t]
             /\ storage'.subscriptions = Item(subscribedTokens')]_vars

\* C12 witness: an unsubscribe went out while logged out, and an entry of the
\* same token with the other kind is still registered.
C12_Witness ==
    /\ last.op = "unsubscribe"
    /\ Len(last.sent) = 1
    /\ ~isLoggedIn
    /\ \E i \in DOMAIN subscribedTokens :
           /\ subscribedTokens[i].token = last.arg.token
           /\ subscribedTokens[i].type # last.arg.type

\* C13: when the auto-login timer of a transport fires after disconnect()
\* closed that transport (the socket is CLOSING until its close event), no
\* login request is sent on any transport and no session state changes.
C13_StaleTimerIsHarmless ==
    [][(last'.op = "timer" /\ sockets[last'.sock].state = "CLOSING")
       => /\ last'.sent = <<>>
          /\ UNCHANGED <<wsStatus, isLoggedIn, subscribedTokens,
                         pendingSubscriptions, marketData, wsRef, sockets,
                         storage>>]_vars

\* C14: the open event sets wsStatus = connected, sends nothing itself, and
\* schedules the auto-login exactly when the replay list is non-empty or the
\* persisted login flag is true; after an open that scheduled none, the next
\* step sends no login request on that transport unless it is login().
C14_AutoLoginScheduledOnOpen ==
    [][/\ (last'.op = "open")
          => /\ wsStatus' = "connected"
             /\ last'.sent = <<>>
             /\ (last'.sock \in timers')
                    <=> (Len(pendingSubscriptions) > 0
                         \/ storage.wasLoggedIn = "true")
       /\ (last.op = "open" /\ last.sock \notin timers /\ last'.op # "login")
          => \A i \in DOMAIN last'.sent :
                ~(/\ last'.sent[i].sock = last.sock
                  /\ last'.sent[i].request.streamingType = "login")]_vars

\* C17: login(), logout(), subscribe() and unsubscribe() invoked while the
\* transport is not open send no frame and change none of wsStatus,
\* isLoggedIn, the registry, the replay list, the market data store and the
\* persisted records.
C17_CommandsNeedOpenTransport ==
    [][(/\ last'.op \in {"login", "logout", "subscribe", "unsubscribe"}
        /\ (wsRef = NoSocket \/ sockets[wsRef].state # "OPEN"))
       => /\ last'.sent = <<>>
          /\ UNCHANGED <<wsStatus, isLoggedIn, subscribedTokens,
                         pendingSubscriptions, marketData, storage>>]_vars

\* C17 witness: logout() was just invoked on a logged-in session with
\* subscriptions whose current transport is not open, and nothing was lost.
C17_Witness ==
    /\ last.op = "logout"
    /\ wsRef # NoSocket
    /\ sockets[wsRef].state # "OPEN"
    /\ isLoggedIn
    /\ subscribedTokens # <<>>

\* C20: subscribe() while connected and logged in sends one subscribe request
\* per parsed token, registered or not, and leaves the registry equal to the
\* previous registry followed by the (token, kind) pairs that were not in it,
\* each once.
RECURSIVE DistinctNew(_, _)
DistinctNew(pairs, seen) ==
    IF pairs = <<>> THEN <<>>
    ELSE IF Head(pairs) \in seen THEN DistinctNew(Tail(pairs), seen)
    ELSE <<Head(pairs)>> \o DistinctNew(Tail(pairs), seen \cup {Head(pairs)})

C20_SubscribeMergesNewPairs ==
    [][(last'.op = "subscribe" /\ RefOpen /\ isLoggedIn)
       => LET tokens == last'.arg.tokens
              type == last'.arg.type
              pairs == [i \in DOMAIN tokens |->
                           [token |-> tokens[i], type |-> type]]
          IN /\ Len(last'.sent) = Len(tokens)
             /\ \A i \in DOMAIN tokens :
                    /\ last'.sent[i].request.request_type = "subscribe"
                    /\ last'.sent[i].request.symbol = tokens[i]
                    /\ last'.sent[i].request.streamingType = type
             /\ subscribedTokens' =
                    subscribedTokens
                    \o DistinctNew(pairs, {subscribedTokens[i] :
                                              i \in DOMAIN subscribedTokens})]_vars

\* C18: a decoded inbound frame, login confirmation or not, is ingested under
\* symbol s exactly when response.data carries s or the top-level object
\* carries s: the store then has a record for s, and the records of all other
\* symbols are as they were.
C18_IngestedUnderEitherSymbol ==
    [][(last'.op = "message" /\ last'.arg.valid)
       => LET f == last'.arg
              carried == {f.top["symbol"]}
                         \cup (IF f.hasResponse /\ f.hasData
                               THEN {f.data["symbol"]} ELSE {})
          IN \A s \in Tokens :
                IF s \in carried
                THEN s \in DOMAIN marketData'
                ELSE /\ (s \in DOMAIN marketData') = (s \in DOMAIN marketData)
                     /\ s \in DOMAIN marketData
                            => marketData'[s] = marketData[s]]_vars

\* C19: the record stored for an ingested frame has changePercent equal to
\* the frame's p_change when present, else its changePercent, else null, and
\* volume equal to its tot_vol when present, else its volume, else null.
C19_PrimaryAliasPreferred ==
    [][Ingested(last')
       => LET info == MarketInfo(last'.arg)
              stored == marketData'[FrameSymbol(last'.arg)]
          IN /\ stored["changePercent"] =
                    IF info["p_change"] # Absent THEN info["p_change"]
                    ELSE IF info["changePercent"] # Absent
                         THEN info["changePercent"] ELSE Null
             /\ stored["volume"] =
                    IF info["tot_vol"] # Absent THEN info["tot_vol"]
                    ELSE IF info["volume"] # Absent
                         THEN info["volume"] ELSE Null]_vars

\* C16: every request sent (manual login, timer login, logout, subscribe,
\* unsubscribe, replayed subscribe) carries the credential values current
\* when it is sent: gscid and gcid always, sessionId and deviceId on login
\* and logout.
C16_RequestsCarryCurrentCredentials ==
    \A i \in DOMAIN last.sent :
        LET request == last.sent[i].request
        IN /\ request.gscid = creds.gscid
           /\ request.gcid = creds.gcid
           /\ request.sessionId # Absent => request.sessionId = creds.sessionId
           /\ request.deviceId # Absent => request.deviceId = creds.deviceId

\* C15: when a transport closes without disconnect() or logout() while the
\* registry is non-empty, then once the operator has connected again, the
\* transport has opened, the timer has fired and the venue has confirmed the
\* login, a subscribe request has been sent for every entry the registry held
\* at the close, each with its own kind, with no subscribe() or login().
C15_SubscriptionsSurviveDrop ==
    \A registry \in StoredLists \ {<<>>} :
        (last.op = "close" /\ subscribedTokens = registry)
        ~> (/\ last.op = "message"
            /\ Len(last.sent) = Len(registry)
            /\ \A i \in DOMAIN registry :
                  /\ last.sent[i].request.request_type = "subscribe"
                  /\ last.sent[i].request.symbol = registry[i].token
                  /\ last.sent[i].request.streamingType = registry[i].type)

\* C15 witness: a transport of a confirmed session has just dropped with two
\* entries of different kinds in the registry, and no transport is left.
C15_Witness ==
    /\ last.op = "close"
    /\ Len(subscribedTokens) = 2
    /\ subscribedTokens[1].type # subscribedTokens[2].type
    /\ storage.wasLoggedIn = "false"
    /\ \A s \in Sockets : sockets[s].state \in {"NONE", "CLOSED"}

\* C21: a step that handles an inbound payload which fails to decode, or
\* whose processing throws, only logs it: wsStatus, isLoggedIn, the registry,
\* the replay list and the market data store are unchanged, and the transport
\* that delivered it is still open.
C21_UndecodableFrameIsOnlyLogged ==
    [][(last'.op = "message" /\ "received raw" \in last'.notes)
       => /\ UNCHANGED <<wsStatus, isLoggedIn, subscribedTokens,
                         pendingSubscriptions, marketData>>
          /\ sockets'[last'.sock].state = "OPEN"]_vars

\* C22: after startup a transport is created only by connect(): no close,
\* error, timer or message step creates one, and the step that follows the
\* close event of a transport that disconnect() had not released leaves
\* wsStatus = disconnected unless it is connect().
C22_NoAutomaticReconnect ==
    [][/\ (\E s \in Sockets : /\ sockets'[s].state = "CONNECTING"
                              /\ sockets[s].state # "CONNECTING")
          => last'.op \in {"mount", "connect"}
       /\ (last.op = "close" /\ wsRef = last.sock /\ last'.op # "connect")
          => wsStatus' = "disconnected"]_vars

\* C23: a transport error event sets wsStatus = error and does not close the
\* transport or release it; the close event of a transport sets wsStatus =
\* disconnected; and with the close event of a failed transport delivered,
\* every state with wsStatus = error is followed by one with wsStatus =
\* disconnected.
C23_ErrorIsNotTerminal ==
    /\ [][/\ (last'.op = "error")
             => /\ wsStatus' = "error"
                /\ sockets'[last'.sock].state # "CLOSED"
                /\ wsRef' = wsRef
          /\ (last'.op = "close") => wsStatus' = "disconnected"]_vars
    /\ (wsStatus = "error") ~> (wsStatus = "disconnected")

\* C23 witness: the current transport of a logged-in session has just failed
\* and its close event is still to come.
C23_Witness ==
    /\ last.op = "error"
    /\ wsStatus = "error"
    /\ wsRef = last.sock
    /\ sockets[wsRef].state = "FAILED"
    /\ isLoggedIn

\* C24: an open, message, error or close event of a transport that is not
\* the session's current one (replaced by a later connect() or released by
\* disconnect()) changes neither wsStatus nor isLoggedIn and sends nothing,
\* and wsStatus = connected only while the current transport is open.
C24_StaleTransportIsIgnored ==
    [][/\ (/\ last'.op \in {"open", "message", "error", "close"}
           /\ last'.sock # wsRef)
          => /\ UNCHANGED <<wsStatus, isLoggedIn>>
             /\ last'.sent = <<>>
       /\ (wsStatus' = "connected")
          => (wsRef' # NoSocket /\ sockets'[wsRef'].state = "OPEN")]_vars

\* C25: a market record removed by unsubscribe() belongs to a token with no
\* remaining registry entry, so unsubscribing one kind of a token that is
\* still registered with the other kind keeps the token's record.
C25_RecordLivesWhileSubscribed ==
    [][(last'.op = "unsubscribe")
       => \A t \in DOMAIN marketData \ DOMAIN marketData' :
             \A i \in DOMAIN subscribedTokens' :
                subscribedTokens'[i].token # t]_vars

====
